---- MODULE Spec2Model ----
(***************************************************************************)
(* Authentication and session core of MilitaryLife (apps/api).             *)
(*                                                                         *)
(* The model follows modules/auth/service.ts (session service and the     *)
(* repository functions appended to it), modules/auth/routes.ts (route    *)
(* handlers, their error mapping and probeDatabase), migration 003 (the   *)
(* unique index on lower(email) and the migrate entry point),             *)
(* db/run-migrations.ts (the migration runner), the failure classifier    *)
(* and the server boot script.  Every `await` is one atomic step of the   *)
(* request or process that executes it; synchronous code between two      *)
(* awaits is folded into the step of the preceding await.                 *)
(***************************************************************************)
EXTENDS Integers, Sequences, FiniteSets, TLC

----------------------------------------------------------------------------
(* Bounds of the model *)

NumProcs == 2       \* requests that can be in flight at the same time
MaxTime == 1        \* the clock runs 0 .. MaxTime
MaxTok == 3         \* generateToken() results available
MaxUuid == 3        \* generateUuid() results available for user ids
MaxRuns == 2        \* processes started that run the migration runner
MaxErr == 2         \* error objects on the heap handed to the failure classifier

(* Configuration: request.server.env.SESSION_DAYS *)
SESSION_DAYS == 1

Procs == 1 .. NumProcs

(* null / undefined of any record-valued expression *)
Null == [null |-> TRUE]

(* getSidFromRequest returning null *)
NoSid == 0

(* A cookie value that generateToken never produced *)
ForgedSid == MaxTok + 1

----------------------------------------------------------------------------
(* Inputs *)

(* SQL lower() / case folding, character by character *)
LowerChar(c) ==
  CASE c = "A" -> "a"
    [] c = "B" -> "b"
    [] c = "C" -> "c"
    [] c = "X" -> "x"
    [] OTHER -> c

Lower(email) == [i \in DOMAIN email |-> LowerChar(email[i])]

Body(email, password) == [email |-> email, password |-> password]

(* Request bodies of POST /register: one address in two casings, and another *)
RegisterInputs ==
  { Body(<<"a", "x">>, "p1"), Body(<<"A", "X">>, "p2"), Body(<<"b", "x">>, "p1") }

(* The bodies of the first account alone *)
RegisterInputsA == { b \in RegisterInputs : Lower(b.email) = <<"a", "x">> }

(* One body of the first account *)
OneBody == { Body(<<"a", "x">>, "p1") }

(* Request bodies of POST /login: the registered bodies, each also with the
   other password, and an address nobody registers *)
LoginInputs ==
  { Body(e, pw) : e \in { <<"a", "x">>, <<"A", "X">>, <<"b", "x">>, <<"c", "x">> },
                  pw \in { "p1", "p2" } }

----------------------------------------------------------------------------
(* utils/crypto.js *)

sha256(sid) == << "sha256", sid >>

hashPassword(password) == [alg |-> "kdf", digest |-> password]

verifyPassword(password, storedHash) ==
  /\ "digest" \in DOMAIN storedHash
  /\ storedHash.digest = password

----------------------------------------------------------------------------
(* Failure classifier: its tables and its loop as a function *)

SERVICE_UNAVAILABLE_DB_CODES ==
  { "08000", "08001", "08003", "08004", "08006",
    "08007", "08P01", "28P01", "3D000", "42P01",
    "53300", "57P01", "57P02", "57P03", "ETIMEDOUT",
    "ECONNREFUSED", "ECONNRESET", "EPIPE", "ENOTFOUND", "EAI_AGAIN" }

(* The hints, as their characters *)
MESSAGE_HINTS ==
  { << "c", "o", "n", "n", "e", "c", "t", "i", "o", "n", " ", "t", "e", "r", "m", "i",
       "n", "a", "t", "e", "d", " ", "u", "n", "e", "x", "p", "e", "c", "t", "e", "d",
       "l", "y" >>,
    << "c", "o", "u", "l", "d", " ", "n", "o", "t", " ", "c", "o", "n", "n", "e", "c",
       "t", " ", "t", "o", " ", "s", "e", "r", "v", "e", "r" >>,
    << "d", "a", "t", "a", "b", "a", "s", "e", " ", "s", "y", "s", "t", "e", "m", " ",
       "i", "s", " ", "s", "t", "a", "r", "t", "i", "n", "g", " ", "u", "p" >>,
    << "t", "i", "m", "e", "o", "u", "t" >>,
    << "c", "o", "n", "n", "e", "c", "t", "i", "o", "n", " ", "r", "e", "f", "u", "s",
       "e", "d" >> }

UpperCaseLetters ==
  << "A", "B", "C", "D", "E", "F", "G", "H", "I", "J", "K", "L", "M",
     "N", "O", "P", "Q", "R", "S", "T", "U", "V", "W", "X", "Y", "Z" >>

LowerCaseLetters ==
  << "a", "b", "c", "d", "e", "f", "g", "h", "i", "j", "k", "l", "m",
     "n", "o", "p", "q", "r", "s", "t", "u", "v", "w", "x", "y", "z" >>

(* message.toLowerCase() *)
toLowerCase(message) ==
  [ k \in 1 .. Len(message) |->
      IF \E u \in 1 .. 26 : UpperCaseLetters[u] = message[k]
        THEN LowerCaseLetters[CHOOSE u \in 1 .. 26 : UpperCaseLetters[u] = message[k]]
        ELSE message[k] ]

(* message.includes(hint) *)
includes(message, hint) ==
  \E k \in 0 .. (Len(message) - Len(hint)) :
    SubSeq(message, k + 1, k + Len(hint)) = hint

(* An error object: the type and the text of its code (a code that is not
   a string reads as undefined), the characters of its message (none when
   it has no string message) and its cause (0 when it has none) *)
ErrorObject(codeType, code, message, cause) ==
  [ codeType |-> codeType, code |-> code, message |-> message, cause |-> cause ]

(* Mutant for C14: no code is taken for a transient one *)
CodeMatches_Never(candidate) == FALSE

(* The two tests of one loop iteration on candidate *)
CodeMatches(candidate) ==
  LET code == IF candidate.codeType = "string" THEN candidate.code ELSE ""
  IN  code # "" /\ code \in SERVICE_UNAVAILABLE_DB_CODES

MessageMatches(candidate) ==
  LET message == toLowerCase(candidate.message)
  IN  message # << >> /\ \E hint \in MESSAGE_HINTS : includes(message, hint)

(* isServiceUnavailableError(error) over the objects of heap: the while
   loop with its locals current and seen *)
RECURSIVE ClassifyFrom(_, _, _)
ClassifyFrom(heap, current, seen) ==
  IF current = 0 \/ current \in seen THEN FALSE
  ELSE IF CodeMatches(heap[current]) THEN TRUE
  ELSE IF MessageMatches(heap[current]) THEN TRUE
  ELSE ClassifyFrom(heap, heap[current].cause, seen \cup {current})

isServiceUnavailableError(heap, error) == ClassifyFrom(heap, error, {})

toServiceUnavailableResponse == [error |-> "Service temporarily unavailable"]

(* An error raised by the database driver with a code and nothing else *)
DriverError(code) == [ n \in {1} |-> ErrorObject("string", code, << >>, 0) ]

----------------------------------------------------------------------------
VARIABLES
  users,        \* table users:    rows [id, email, password_hash]
  sessions,     \* table sessions: rows [id, user_id, token_hash, expires_at, last_seen_at]
  now,          \* the clock (Date() of the service and now() of the database)
  nextUuid,     \* next result of generateUuid() for a user id
  nextTok,      \* next result of generateToken()
  proc,         \* per request slot: the running handler's position and locals
  last,         \* the exchange completed most recently: request, request.auth, reply
  jar,          \* Set-Cookie headers delivered to clients: [sid, userId, via, expires]
  superseded,   \* history: tokens delivered before a later successful login of the same user began
  loggedOut,    \* history: delivered tokens for which a logout's delete statement has completed
  migrationsDir,      \* the files of db/migrations
  schema_migrations,  \* table schema_migrations: whether it exists, and its filenames
  batches,      \* history, per file: statement batches started and completed
  runner,       \* per process slot: position and locals of boot / runMigrations
  runs,         \* processes started so far
  probe,        \* per slot: a probeDatabase call, its query and its timer
  cls           \* an isServiceUnavailableError call: heap, argument, loop locals

(* The state of the auth module, and the state of boot, migrations, probe
   and classifier *)
authVars == << users, sessions, now, nextUuid, nextTok, proc, last, jar, superseded, loggedOut >>

infra == << migrationsDir, schema_migrations, batches, runner, runs, probe, cls >>

vars == << authVars, infra >>

----------------------------------------------------------------------------
(* Replies *)

NoSetCookie == [op |-> "none"]

NoReply == [status |-> 0, body |-> Null, cookie |-> NoSetCookie]

Reply(status, body, cookie) == [status |-> status, body |-> body, cookie |-> cookie]

getCookieOptions(expiresAt) ==
  [httpOnly |-> TRUE, sameSite |-> "lax", path |-> "/", expires |-> expiresAt]

setSessionCookie(sid, expiresAt) ==
  [op |-> "set", name |-> "sid", value |-> sid, options |-> getCookieOptions(expiresAt)]

clearSessionCookie ==
  [op |-> "clear", name |-> "sid", value |-> NoSid,
   options |-> [httpOnly |-> TRUE, sameSite |-> "lax", path |-> "/", expires |-> 0]]

buildSessionExpiry(days) == now + days

----------------------------------------------------------------------------
(* Request slots *)

Idle ==
  [ kind      |-> "none",
    pc        |-> "idle",
    email     |-> << >>,
    password  |-> "",
    cookie    |-> NoSid,
    sid       |-> NoSid,
    user      |-> Null,
    userId    |-> 0,
    expiresAt |-> 0,
    session   |-> Null,
    auth      |-> Null,
    prior     |-> {} ]

Free(p) == proc[p].pc = "idle"

(* A completed exchange: what the client sent and got, and request.auth *)
Exchange(r, reply, err, fault) ==
  [ kind   |-> r.kind,
    email  |-> r.email,
    cookie |-> r.cookie,
    auth   |-> r.auth,
    reply  |-> reply,
    err    |-> err,
    fault  |-> fault ]

NoExchange == Exchange(Idle, NoReply, "", "")

(* getSidFromRequest: an absent or empty cookie is no sid *)
getSidFromRequest(cookie) == IF cookie = NoSid THEN NoSid ELSE cookie

(* Cookie values a client can send: nothing, a delivered token, a forged one *)
CookieInputs == {NoSid, ForgedSid} \cup {j.sid : j \in jar}

(* generateUuid() for the session row created together with token sid *)
SessionUuid(sid) == sid

----------------------------------------------------------------------------
(* Session store (repository functions) *)

queryOne(rows) == IF rows = {} THEN Null ELSE CHOOSE r \in rows : TRUE

(* Mutant for C3: the lookup compares the address as typed *)
findUserByEmail_CaseSensitive(email) ==
  queryOne({u \in users : u.email = email})

findUserByEmail(email) ==
  queryOne({u \in users : Lower(u.email) = Lower(email)})

findUserById(userId) ==
  queryOne({u \in users : u.id = userId})

(* migration 003: the unique index on lower(email) is created unless the
   table already holds case-insensitive duplicates; the table starts empty *)
InitUsers == {}

idx_users_email_lower_unique ==
  ~(\E u1, u2 \in InitUsers : u1 # u2 /\ Lower(u1.email) = Lower(u2.email))

UniqueViolation(email) ==
  /\ idx_users_email_lower_unique
  /\ \E u \in users : Lower(u.email) = Lower(email)

createUser(id, email, passwordHash) ==
  users \cup {[id |-> id, email |-> email, password_hash |-> passwordHash]}

NeverSeen == 0 - 1

createSession(id, userId, tokenHash, expiresAt) ==
  sessions \cup {[id |-> id, user_id |-> userId, token_hash |-> tokenHash,
                  expires_at |-> expiresAt, last_seen_at |-> NeverSeen]}

(* profiles is never written by these modules: LEFT JOIN finds no row *)
profiles == {}

ProfileIdOf(userId) ==
  LET ps == {pr \in profiles : pr.user_id = userId}
  IN  IF ps = {} THEN Null ELSE [id |-> (CHOOSE pr \in ps : TRUE).id]

(* Mutant for C7: the lookup forgets the expiry condition *)
findSessionByTokenHash_NoExpiry(tokenHash) ==
  queryOne({ [session_id |-> su[1].id, user_id |-> su[1].user_id, email |-> su[2].email,
              expires_at |-> su[1].expires_at, profile_id |-> ProfileIdOf(su[2].id)] :
             su \in { x \in sessions \X users :
                        /\ x[2].id = x[1].user_id
                        /\ x[1].token_hash = tokenHash } })

findSessionByTokenHash(tokenHash) ==
  queryOne({ [session_id |-> su[1].id, user_id |-> su[1].user_id, email |-> su[2].email,
              expires_at |-> su[1].expires_at, profile_id |-> ProfileIdOf(su[2].id)] :
             su \in { x \in sessions \X users :
                        /\ x[2].id = x[1].user_id
                        /\ x[1].token_hash = tokenHash
                        /\ x[1].expires_at > now } })

(* Mutant for C19: the touch pushes the expiry back *)
touchSession_Extends(sessionId) ==
  { IF s.id = sessionId THEN [s EXCEPT !.last_seen_at = now, !.expires_at = @ + 1]
                        ELSE s : s \in sessions }

touchSession(sessionId) ==
  { IF s.id = sessionId THEN [s EXCEPT !.last_seen_at = now] ELSE s : s \in sessions }

(* Mutant for C6: the delete matches no row *)
deleteSessionByTokenHash_KeepAll(tokenHash) == sessions

deleteSessionByTokenHash(tokenHash) ==
  {s \in sessions : s.token_hash # tokenHash}

(* Mutant for C20: the purge matches the rows of every user *)
deleteSessionsByUserId_Everyone(userId) == {}

(* Mutant for C1: the purge of the user's earlier sessions matches no row *)
deleteSessionsByUserId_KeepAll(userId) == sessions

deleteSessionsByUserId(userId) ==
  {s \in sessions : s.user_id # userId}

----------------------------------------------------------------------------
(* Boot, migrations, probe and classifier: the values of their state *)

Runners == Procs

Probes == Procs

(* File names of db/migrations, as their characters *)
SqlExt == << ".", "s", "q", "l" >>

FileName(stem, ext) == stem \o ext

(* The files a migrations directory can hold: three numbered .sql files
   ("010" sorts after "002") and a file of another extension that sorts first *)
FilePool ==
  { FileName(<< "0", "0", "1" >>, SqlExt),
    FileName(<< "0", "0", "2" >>, SqlExt),
    FileName(<< "0", "1", "0" >>, SqlExt),
    FileName(<< "0", "0", "0" >>, << ".", "m", "d" >>) }

(* name.endsWith(suffix) *)
endsWith(name, suffix) ==
  /\ Len(name) >= Len(suffix)
  /\ SubSeq(name, Len(name) - Len(suffix) + 1, Len(name)) = suffix

(* Collation order of the characters that occur in the file names *)
CollationRank(c) ==
  CASE c = "." -> 0
    [] c = "0" -> 1
    [] c = "1" -> 2
    [] c = "2" -> 3
    [] c = "d" -> 4
    [] c = "l" -> 5
    [] c = "m" -> 6
    [] c = "q" -> 7
    [] c = "s" -> 8

(* a.localeCompare(b): negative, zero or positive *)
RECURSIVE localeCompare(_, _)
localeCompare(a, b) ==
  IF a = << >> /\ b = << >> THEN 0
  ELSE IF a = << >> THEN 0 - 1
  ELSE IF b = << >> THEN 1
  ELSE IF CollationRank(Head(a)) < CollationRank(Head(b)) THEN 0 - 1
  ELSE IF CollationRank(Head(a)) > CollationRank(Head(b)) THEN 1
  ELSE localeCompare(Tail(a), Tail(b))

(* names.sort((a, b) => a.localeCompare(b)) *)
RECURSIVE sort(_)
sort(names) ==
  IF names = {} THEN << >>
  ELSE LET first == CHOOSE a \in names : \A b \in names : localeCompare(a, b) <= 0
       IN  << first >> \o sort(names \ {first})

(* Mutant for C17: the list is processed in descending order *)
ListMigrations_Descending(dir) ==
  LET asc == sort({name \in dir : endsWith(name, SqlExt)})
  IN  [i \in 1 .. Len(asc) |-> asc[Len(asc) + 1 - i]]

(* (await readdir(dir)).filter(name => name.endsWith('.sql')).sort(...) *)
ListMigrations(dir) == sort({name \in dir : endsWith(name, SqlExt)})

(* A process slot with no process in it *)
NoProcess ==
  [ pc        |-> "none",     \* position of the process
    entry     |-> "none",     \* "server" (boot script) or "migrate" (CLI entry)
    auto      |-> FALSE,      \* env.AUTO_MIGRATE_ON_BOOT
    files     |-> << >>,      \* const files
    i         |-> 0,          \* position of the for loop in files
    client    |-> "none",     \* the pooled client: "none", "held" or "released"
    error     |-> "",         \* the error runMigrations rejected with
    executed  |-> << >>,      \* history: batches this run executed, in order
    listening |-> FALSE ]     \* app.listen has completed

(* No probeDatabase call *)
NoProbe ==
  [ pc      |-> "none",       \* "none", "racing" or "returned"
    query   |-> "none",       \* db.query('SELECT 1'): "pending", "fulfilled", "rejected"
    timer   |-> "none",       \* the timeout: "pending", "fired", "cleared"
    outcome |-> "none",       \* how probeDatabase settled: "resolved" or "rejected"
    code    |-> "",           \* the code of the error it rejected with
    queryError |-> "",        \* the code of the error the query rejected with
    timeoutMs  |-> 0,         \* the argument timeoutMs
    first   |-> "none" ]      \* history: which of query and timer finished first

(* No isServiceUnavailableError call *)
NoCall ==
  [ pc      |-> "none",       \* "none", "loop" or "returned"
    heap    |-> << >>,        \* the error objects: heap[n] = [code, message, cause]
    error   |-> 0,            \* the argument: an object of the heap, or 0
    current |-> 0,            \* let current
    seen    |-> {},           \* const seen
    result  |-> FALSE ]       \* the value returned

InitInfraIn(dirs) ==
  /\ migrationsDir \in dirs
  /\ schema_migrations = [exists |-> FALSE, rows |-> {}]
  /\ batches = [f \in FilePool |-> [started |-> 0, completed |-> 0]]
  /\ runner = [r \in Runners |-> NoProcess]
  /\ runs = 0
  /\ probe = [q \in Probes |-> NoProbe]
  /\ cls = NoCall

InitInfra == InitInfraIn({FilePool})

----------------------------------------------------------------------------
InitAuth ==
  /\ users = InitUsers
  /\ sessions = {}
  /\ now = 0
  /\ nextUuid = 1
  /\ nextTok = 1
  /\ proc = [p \in Procs |-> Idle]
  /\ last = NoExchange
  /\ jar = {}
  /\ superseded = {}
  /\ loggedOut = {}

Init == InitAuth /\ InitInfra

(* The handler awaits its next store call *)
Goto(p, r) ==
  /\ proc' = [proc EXCEPT ![p] = r]
  /\ UNCHANGED last

(* The handler returns or raises: the slot is free again *)
Finish(p, r, reply, err, fault) ==
  /\ proc' = [proc EXCEPT ![p] = Idle]
  /\ last' = Exchange(r, reply, err, fault)

----------------------------------------------------------------------------
(* Requests arrive (routes.ts): the body has passed parseOrThrow *)

StartRegister(p, bodies) ==
  /\ Free(p)
  /\ \E body \in bodies :
       Goto(p, [Idle EXCEPT !.kind = "register", !.pc = "reg_find_user",
                            !.email = body.email, !.password = body.password])
  /\ UNCHANGED << users, sessions, now, nextUuid, nextTok, jar, superseded, loggedOut, infra >>

StartLogin(p, bodies) ==
  /\ Free(p)
  /\ \E body \in bodies :
       Goto(p, [Idle EXCEPT !.kind = "login", !.pc = "login_find_user",
                            !.email = body.email, !.password = body.password,
                            !.prior = {j.sid : j \in jar}])
  /\ UNCHANGED << users, sessions, now, nextUuid, nextTok, jar, superseded, loggedOut, infra >>

(* logoutUser up to its first await *)
StartLogout(p) ==
  /\ Free(p)
  /\ \E c \in CookieInputs :
       LET sid == getSidFromRequest(c)
           r   == [Idle EXCEPT !.kind = "logout", !.cookie = c, !.sid = sid]
       IN  IF sid # NoSid
             THEN Goto(p, [r EXCEPT !.pc = "logout_delete"])
             ELSE Finish(p, r, Reply(204, Null, clearSessionCookie), "", "")
  /\ UNCHANGED << users, sessions, now, nextUuid, nextTok, jar, superseded, loggedOut, infra >>

Unauthorized == Reply(401, [error |-> "Unauthorized"], NoSetCookie)

(* attachAuth up to its first await, under GET /me (then getMe) or requireAuth *)
StartAttach(p, kind) ==
  /\ Free(p)
  /\ \E c \in CookieInputs :
       LET sid == getSidFromRequest(c)
           r   == [Idle EXCEPT !.kind = kind, !.cookie = c, !.sid = sid]
       IN  IF sid # NoSid
             THEN Goto(p, [r EXCEPT !.pc = "attach_find"])
             ELSE Finish(p, [r EXCEPT !.auth = Null], Unauthorized, "", "")
  /\ UNCHANGED << users, sessions, now, nextUuid, nextTok, jar, superseded, loggedOut, infra >>

StartMe(p) == StartAttach(p, "me")

StartRequireAuth(p) == StartAttach(p, "guard")

----------------------------------------------------------------------------
(* registerUser *)

Conflict == Reply(409, [error |-> "Email already registered"], NoSetCookie)

RegFindUser(p) ==
  LET r == proc[p] IN
  /\ r.pc = "reg_find_user"
  /\ IF findUserByEmail(r.email) # Null
       THEN /\ Finish(p, r, Conflict, "", "")
            /\ UNCHANGED nextUuid
       ELSE /\ nextUuid <= MaxUuid
            /\ Goto(p, [r EXCEPT !.pc = "reg_create_user", !.userId = nextUuid])
            /\ nextUuid' = nextUuid + 1
  /\ UNCHANGED << users, sessions, now, nextTok, jar, superseded, loggedOut, infra >>

(* The reply for a storage error that is no unique violation: the uniform
   unavailable body when the failure classifier says so, a generic internal
   error otherwise *)
ErrorReply(code) ==
  IF isServiceUnavailableError(DriverError(code), 1)
    THEN Reply(503, toServiceUnavailableResponse, NoSetCookie)
    ELSE Reply(500, [error |-> "Internal Server Error"], NoSetCookie)

(* utils/validate.js: the reply for an error that is no unique violation *)
sendValidationError(code) == ErrorReply(code)

(* The error handler of the application, for an error that leaves a route
   handler *)
errorHandler(code) == ErrorReply(code)

(* Mutant for C4: the unique violation is not recognised *)
sendAuthError_NoConflict(code) == sendValidationError(code)

(* routes.ts: the catch of POST /register and POST /login *)
sendAuthError(code) ==
  IF code = "23505" THEN Conflict ELSE sendValidationError(code)

RegCreateUser(p) ==
  LET r == proc[p] IN
  /\ r.pc = "reg_create_user"
  /\ IF UniqueViolation(r.email)
       THEN /\ Finish(p, r, sendAuthError("23505"), "23505", "createUser")
            /\ UNCHANGED users
       ELSE /\ users' = createUser(r.userId, r.email, hashPassword(r.password))
            /\ Goto(p, [r EXCEPT !.pc = "reg_delete_sessions"])
  /\ UNCHANGED << sessions, now, nextUuid, nextTok, jar, superseded, loggedOut, infra >>

RegDeleteSessions(p) ==
  LET r == proc[p] IN
  /\ r.pc = "reg_delete_sessions"
  /\ nextTok <= MaxTok
  /\ sessions' = deleteSessionsByUserId(r.userId)
  /\ Goto(p, [r EXCEPT !.pc = "reg_create_session", !.sid = nextTok,
                       !.expiresAt = buildSessionExpiry(SESSION_DAYS)])
  /\ nextTok' = nextTok + 1
  /\ UNCHANGED << users, now, nextUuid, jar, superseded, loggedOut, infra >>

RegCreateSession(p) ==
  LET r == proc[p] IN
  /\ r.pc = "reg_create_session"
  /\ sessions' = createSession(SessionUuid(r.sid), r.userId, sha256(r.sid), r.expiresAt)
  /\ Finish(p, r,
            Reply(201, [userId |-> r.userId, email |-> r.email, profileId |-> Null],
                  setSessionCookie(r.sid, r.expiresAt)),
            "", "")
  /\ jar' = jar \cup {[sid |-> r.sid, userId |-> r.userId, via |-> "register",
                       expires |-> r.expiresAt]}
  /\ UNCHANGED << users, now, nextUuid, nextTok, superseded, loggedOut, infra >>

----------------------------------------------------------------------------
(* loginUser *)

InvalidCredentials == Reply(401, [error |-> "Invalid credentials"], NoSetCookie)

(* Mutant for C8: the purge runs before the password is verified *)
LoginFindUser_PurgeFirst(p) ==
  LET r    == proc[p]
      user == findUserByEmail(r.email)
  IN
  /\ r.pc = "login_find_user"
  /\ IF user = Null
       THEN /\ Finish(p, r, InvalidCredentials, "", "")
            /\ UNCHANGED sessions
       ELSE /\ sessions' = {s \in sessions : s.user_id # user.id}
            /\ IF ~verifyPassword(r.password, user.password_hash)
                 THEN Finish(p, r, InvalidCredentials, "", "")
                 ELSE Goto(p, [r EXCEPT !.pc = "login_delete_sessions", !.user = user,
                                        !.email = << >>, !.password = ""])
  /\ UNCHANGED << users, now, nextUuid, nextTok, jar, superseded, loggedOut, infra >>

LoginFindUser(p) ==
  LET r    == proc[p]
      user == findUserByEmail(r.email)
  IN
  /\ r.pc = "login_find_user"
  /\ IF user = Null
       THEN Finish(p, r, InvalidCredentials, "", "")
       ELSE IF ~verifyPassword(r.password, user.password_hash)
         THEN Finish(p, r, InvalidCredentials, "", "")
         ELSE Goto(p, [r EXCEPT !.pc = "login_delete_sessions", !.user = user,
                              !.email = << >>, !.password = ""])
  /\ UNCHANGED << users, sessions, now, nextUuid, nextTok, jar, superseded, loggedOut, infra >>

LoginDeleteSessions(p) ==
  LET r == proc[p] IN
  /\ r.pc = "login_delete_sessions"
  /\ nextTok <= MaxTok
  /\ sessions' = deleteSessionsByUserId(r.user.id)
  /\ Goto(p, [r EXCEPT !.pc = "login_create_session", !.sid = nextTok,
                       !.expiresAt = buildSessionExpiry(SESSION_DAYS)])
  /\ nextTok' = nextTok + 1
  /\ UNCHANGED << users, now, nextUuid, jar, superseded, loggedOut, infra >>

LoginCreateSession(p) ==
  LET r == proc[p] IN
  /\ r.pc = "login_create_session"
  /\ sessions' = createSession(SessionUuid(r.sid), r.user.id, sha256(r.sid), r.expiresAt)
  /\ Goto(p, [r EXCEPT !.pc = "login_reread"])
  /\ UNCHANGED << users, now, nextUuid, nextTok, jar, superseded, loggedOut, infra >>

LoginReread(p) ==
  LET r       == proc[p]
      profile == findSessionByTokenHash(sha256(r.sid))
  IN
  /\ r.pc = "login_reread"
  /\ Finish(p, r,
            Reply(200,
                  [userId |-> r.user.id, email |-> r.user.email,
                   profileId |-> IF profile = Null THEN Null ELSE profile.profile_id],
                  setSessionCookie(r.sid, r.expiresAt)),
            "", "")
  /\ jar' = jar \cup {[sid |-> r.sid, userId |-> r.user.id, via |-> "login",
                       expires |-> r.expiresAt]}
  /\ superseded' = superseded \cup
                     {j.sid : j \in {k \in jar : k.sid \in r.prior /\ k.userId = r.user.id}}
  /\ UNCHANGED << users, sessions, now, nextUuid, nextTok, loggedOut, infra >>

----------------------------------------------------------------------------
(* logoutUser *)

LogoutDelete(p) ==
  LET r == proc[p] IN
  /\ r.pc = "logout_delete"
  /\ sessions' = deleteSessionByTokenHash(sha256(r.sid))
  /\ Finish(p, r, Reply(204, Null, clearSessionCookie), "", "")
  /\ loggedOut' = loggedOut \cup ({r.sid} \cap {j.sid : j \in jar})
  /\ UNCHANGED << users, now, nextUuid, nextTok, jar, superseded, infra >>

----------------------------------------------------------------------------
(* attachAuth, then getMe (GET /me) or the rest of requireAuth *)

AttachFind(p) ==
  LET r       == proc[p]
      session == findSessionByTokenHash(sha256(r.sid))
  IN
  /\ r.pc = "attach_find"
  /\ IF session = Null
       THEN Finish(p, [r EXCEPT !.auth = Null], Unauthorized, "", "")
       ELSE Goto(p, [r EXCEPT !.pc = "attach_touch", !.session = session])
  /\ UNCHANGED << users, sessions, now, nextUuid, nextTok, jar, superseded, loggedOut, infra >>

(* Mutant for C5: the principal carries the session id as its user id *)
Principal_SessionAsUser(sid, session) ==
  [ sid       |-> sid,
    sessionId |-> session.session_id,
    userId    |-> session.session_id,
    email     |-> session.email,
    profileId |-> session.profile_id,
    expiresAt |-> session.expires_at ]

Principal(sid, session) ==
  [ sid       |-> sid,
    sessionId |-> session.session_id,
    userId    |-> session.user_id,
    email     |-> session.email,
    profileId |-> session.profile_id,
    expiresAt |-> session.expires_at ]

AttachTouch(p) ==
  LET r  == proc[p]
      r2 == [r EXCEPT !.auth = Principal(r.sid, r.session)]
  IN
  /\ r.pc = "attach_touch"
  /\ sessions' = touchSession(r.session.session_id)
  /\ IF r.kind = "me"
       THEN Goto(p, [r2 EXCEPT !.pc = "me_find_user"])
       ELSE Finish(p, r2, NoReply, "", "")
  /\ UNCHANGED << users, now, nextUuid, nextTok, jar, superseded, loggedOut, infra >>

(* Mutant for C10: getMe answers from the principal without the re-read *)
MeFindUser_TrustPrincipal(p) ==
  LET r == proc[p] IN
  /\ r.pc = "me_find_user"
  /\ Finish(p, r,
            Reply(200, [userId |-> r.auth.userId, email |-> r.auth.email,
                        profileId |-> r.auth.profileId], NoSetCookie),
            "", "")
  /\ UNCHANGED << users, sessions, now, nextUuid, nextTok, jar, superseded, loggedOut, infra >>

MeFindUser(p) ==
  LET r    == proc[p]
      user == findUserById(r.auth.userId)
  IN
  /\ r.pc = "me_find_user"
  /\ IF user = Null
       THEN Finish(p, r, Unauthorized, "", "")
       ELSE Finish(p, r,
                   Reply(200, [userId |-> user.id, email |-> user.email,
                               profileId |-> r.auth.profileId], NoSetCookie),
                   "", "")
  /\ UNCHANGED << users, sessions, now, nextUuid, nextTok, jar, superseded, loggedOut, infra >>

----------------------------------------------------------------------------
(* The clock *)

Tick ==
  /\ now < MaxTime
  /\ now' = now + 1
  /\ UNCHANGED << users, sessions, nextUuid, nextTok, proc, last, jar, superseded, loggedOut, infra >>

----------------------------------------------------------------------------
(* A store call fails: the awaited statement raises instead of completing.
   POST /register and POST /login catch and answer through sendAuthError;
   POST /logout, GET /me and requireAuth let the error leave the handler,
   and the application's error handler answers. *)
StoreErrors == { "ECONNREFUSED" }

StoreCall(pc) ==
  CASE pc = "reg_find_user"         -> "findUserByEmail"
    [] pc = "reg_create_user"       -> "createUser"
    [] pc = "reg_delete_sessions"   -> "deleteSessionsByUserId"
    [] pc = "reg_create_session"    -> "createSession"
    [] pc = "login_find_user"       -> "findUserByEmail"
    [] pc = "login_delete_sessions" -> "deleteSessionsByUserId"
    [] pc = "login_create_session"  -> "createSession"
    [] pc = "login_reread"          -> "findSessionByTokenHash"
    [] pc = "logout_delete"         -> "deleteSessionByTokenHash"
    [] pc = "attach_find"           -> "findSessionByTokenHash"
    [] pc = "attach_touch"          -> "touchSession"
    [] pc = "me_find_user"          -> "findUserById"

StoreFault(p) ==
  LET r == proc[p] IN
  /\ r.pc # "idle"
  /\ \E code \in StoreErrors :
       Finish(p, r,
              IF r.kind \in {"register", "login"} THEN sendAuthError(code)
                                                  ELSE errorHandler(code),
              code, StoreCall(r.pc))
  /\ UNCHANGED << users, sessions, now, nextUuid, nextTok, jar, superseded, loggedOut, infra >>

(* A user row is removed by something other than these modules; the schema
   of sessions.user_id is not part of them, so the user's session rows may
   stay or go with it *)
DeleteUser ==
  /\ \E u \in users, cascade \in BOOLEAN :
       /\ users' = users \ {u}
       /\ sessions' = IF cascade THEN deleteSessionsByUserId(u.id) ELSE sessions
  /\ UNCHANGED << now, nextUuid, nextTok, proc, last, jar, superseded, loggedOut, infra >>

----------------------------------------------------------------------------
RegisterSteps(p) ==
  \/ RegFindUser(p)
  \/ RegCreateUser(p)
  \/ RegDeleteSessions(p)
  \/ RegCreateSession(p)

LoginSteps(p) ==
  \/ LoginFindUser(p)
  \/ LoginDeleteSessions(p)
  \/ LoginCreateSession(p)
  \/ LoginReread(p)

Step(p) ==
  \/ RegisterSteps(p)
  \/ LoginSteps(p)
  \/ LogoutDelete(p)
  \/ AttachFind(p)
  \/ AttachTouch(p)
  \/ MeFindUser(p)

NoneInFlight == \A q \in Procs : Free(q)

(* Spec: the service handles one request at a time, on every route; the
   clock runs between any two statements.  The clients hold one account,
   which may be registered in either casing, and also try an address that
   nobody registers. *)
Next ==
  \/ StartRegister(1, RegisterInputsA)
  \/ StartLogin(1, LoginInputs)
  \/ StartLogout(1)
  \/ StartMe(1)
  \/ StartRequireAuth(1)
  \/ Step(1)
  \/ Tick

Spec == Init /\ [][Next]_vars

(* SpecFault: as Spec, and any store call may fail *)
NextFault ==
  \/ Next
  \/ StoreFault(1)

SpecFault == Init /\ [][NextFault]_vars

(* SpecUnavailable: register, login, logout and GET /me of one account,
   one request at a time, any of their store calls failing *)
NextUnavailable ==
  \/ StartRegister(1, OneBody)
  \/ StartLogin(1, OneBody)
  \/ StartLogout(1)
  \/ StartMe(1)
  \/ RegisterSteps(1)
  \/ LoginSteps(1)
  \/ LogoutDelete(1)
  \/ AttachFind(1)
  \/ AttachTouch(1)
  \/ MeFindUser(1)
  \/ StoreFault(1)

SpecUnavailable == Init /\ [][NextUnavailable]_vars

(* SpecIsolation: two clients, each with an account of its own, register
   and log in through their own request slots while logouts with any
   delivered or forged cookie run in every slot *)
Clients == { 1, 2 }

AccountOf(p) ==
  IF p = 1 THEN { Body(<<"a", "x">>, "p1") } ELSE { Body(<<"b", "x">>, "p1") }

NextIsolation ==
  \E p \in Clients :
    \/ StartRegister(p, AccountOf(p))
    \/ StartLogin(p, AccountOf(p))
    \/ StartLogout(p)
    \/ RegisterSteps(p)
    \/ LoginSteps(p)
    \/ LogoutDelete(p)

SpecIsolation == Init /\ [][NextIsolation]_vars

(* SpecDel: registrations, GET /me and requireAuth handled one at a time,
   while user rows may be removed from outside *)
NextDel ==
  \/ StartRegister(1, OneBody)
  \/ StartMe(1)
  \/ StartRequireAuth(1)
  \/ RegisterSteps(1)
  \/ AttachFind(1)
  \/ AttachTouch(1)
  \/ MeFindUser(1)
  \/ Tick
  \/ DeleteUser

SpecDel == Init /\ [][NextDel]_vars

(* SpecLoginRace: registrations and logins of one account served
   concurrently, their statements interleaved in every order *)
NextLoginRace ==
  \/ \E p \in Procs : StartRegister(p, OneBody)
  \/ \E p \in Procs : StartLogin(p, OneBody)
  \/ \E p \in Procs : RegisterSteps(p)
  \/ \E p \in Procs : LoginSteps(p)

SpecLoginRace == Init /\ [][NextLoginRace]_vars

(* SpecRegisterRace: registrations of one address in either casing served
   concurrently *)
NextRegisterRace ==
  \/ \E p \in Procs : StartRegister(p, RegisterInputsA)
  \/ \E p \in Procs : RegisterSteps(p)

SpecRegisterRace == Init /\ [][NextRegisterRace]_vars

----------------------------------------------------------------------------
(* Boot script and migration runner (run-migrations.ts, the migrate entry
   point, the server boot script) *)

(* Positions at which a slot holds no running process *)
Ended == { "none", "exited", "killed", "serving" }

(* Positions inside the try block of runMigrations at which a query is awaited *)
InTry == { "ensure_ledger", "readdir", "select", "exec", "insert" }

(* A process starts: the boot script (server) or the migrate entry point *)
StartProcess(r, entries, autos) ==
  /\ runner[r].pc \in Ended
  /\ runs < MaxRuns
  /\ \E entry \in entries, auto \in autos :
       runner' = [runner EXCEPT ![r] =
                    [NoProcess EXCEPT !.entry = entry, !.auto = auto,
                                      !.pc = IF entry = "server" /\ ~auto
                                               THEN "build_app" ELSE "connect"]]
  /\ runs' = runs + 1
  /\ UNCHANGED << authVars, migrationsDir, schema_migrations, batches, probe, cls >>

(* const client = await pool.connect() *)
Connect(r) ==
  /\ runner[r].pc = "connect"
  /\ runner' = [runner EXCEPT ![r].pc = "ensure_ledger", ![r].client = "held"]
  /\ UNCHANGED << authVars, migrationsDir, schema_migrations, batches, runs, probe, cls >>

(* CREATE TABLE IF NOT EXISTS schema_migrations (filename TEXT PRIMARY KEY, ...) *)
EnsureLedger(r) ==
  /\ runner[r].pc = "ensure_ledger"
  /\ schema_migrations' = [schema_migrations EXCEPT !.exists = TRUE]
  /\ runner' = [runner EXCEPT ![r].pc = "readdir"]
  /\ UNCHANGED << authVars, migrationsDir, batches, runs, probe, cls >>

(* The for loop moves to position i: the next SELECT, or the finally block *)
LoopAt(rec, i) ==
  [rec EXCEPT !.i = i, !.pc = IF i > Len(rec.files) THEN "finally" ELSE "select"]

(* const files = (await readdir(migrationsDir)).filter(...).sort(...) *)
ReadDir(r) ==
  /\ runner[r].pc = "readdir"
  /\ runner' = [runner EXCEPT ![r] =
                  LoopAt([runner[r] EXCEPT !.files = ListMigrations(migrationsDir)], 1)]
  /\ UNCHANGED << authVars, migrationsDir, schema_migrations, batches, runs, probe, cls >>

(* Mutant for C11: the ledger is not consulted *)
SelectApplied_NeverSkips(r) ==
  /\ runner[r].pc = "select"
  /\ runner' = [runner EXCEPT ![r].pc = "exec"]
  /\ UNCHANGED << authVars, migrationsDir, schema_migrations, batches, runs, probe, cls >>

(* SELECT filename FROM schema_migrations WHERE filename = $1; continue when
   a row is found, else readFile *)
SelectApplied(r) ==
  LET rec      == runner[r]
      filename == rec.files[rec.i]
  IN
  /\ rec.pc = "select"
  /\ runner' = [runner EXCEPT ![r] =
                  IF filename \in schema_migrations.rows
                    THEN LoopAt(rec, rec.i + 1)
                    ELSE [rec EXCEPT !.pc = "exec"]]
  /\ UNCHANGED << authVars, migrationsDir, schema_migrations, batches, runs, probe, cls >>

(* Mutant for C18: the ledger row is written together with the batch *)
ExecBatch_RecordsFirst(r) ==
  LET rec      == runner[r]
      filename == rec.files[rec.i]
  IN
  /\ rec.pc = "exec"
  /\ batches' = [batches EXCEPT ![filename].started = @ + 1,
                                ![filename].completed = @ + 1]
  /\ schema_migrations' = [schema_migrations EXCEPT !.rows = @ \cup {filename}]
  /\ runner' = [runner EXCEPT ![r].pc = "insert",
                              ![r].executed = Append(@, filename)]
  /\ UNCHANGED << authVars, migrationsDir, runs, probe, cls >>

(* await client.query(sql): the file's statement batch runs to completion *)
ExecBatch(r) ==
  LET rec      == runner[r]
      filename == rec.files[rec.i]
  IN
  /\ rec.pc = "exec"
  /\ batches' = [batches EXCEPT ![filename].started = @ + 1,
                                ![filename].completed = @ + 1]
  /\ runner' = [runner EXCEPT ![r].pc = "insert",
                              ![r].executed = Append(@, filename)]
  /\ UNCHANGED << authVars, migrationsDir, schema_migrations, runs, probe, cls >>

(* Mutant for C12: the ledger has no primary key *)
InsertLedger_NoPrimaryKey(r) ==
  LET rec      == runner[r]
      filename == rec.files[rec.i]
  IN
  /\ rec.pc = "insert"
  /\ schema_migrations' = [schema_migrations EXCEPT !.rows = @ \cup {filename}]
  /\ runner' = [runner EXCEPT ![r] = LoopAt(rec, rec.i + 1)]
  /\ UNCHANGED << authVars, migrationsDir, batches, runs, probe, cls >>

(* INSERT INTO schema_migrations (filename) VALUES ($1): the primary key
   rejects a second row of the same filename with 23505 *)
InsertLedger(r) ==
  LET rec      == runner[r]
      filename == rec.files[rec.i]
  IN
  /\ rec.pc = "insert"
  /\ IF filename \in schema_migrations.rows
       THEN /\ runner' = [runner EXCEPT ![r].pc = "finally", ![r].error = "23505"]
            /\ UNCHANGED schema_migrations
       ELSE /\ schema_migrations' = [schema_migrations EXCEPT !.rows = @ \cup {filename}]
            /\ runner' = [runner EXCEPT ![r] = LoopAt(rec, rec.i + 1)]
  /\ UNCHANGED << authVars, migrationsDir, batches, runs, probe, cls >>

(* Mutant for C13: the boot script goes on after a rejected runMigrations *)
Finally_Swallows(r) ==
  LET rec == runner[r] IN
  /\ rec.pc = "finally"
  /\ runner' = [runner EXCEPT ![r].client = "released",
                              ![r].pc = IF rec.entry = "server"
                                          THEN "build_app" ELSE "exited"]
  /\ UNCHANGED << authVars, migrationsDir, schema_migrations, batches, runs, probe, cls >>

(* finally { client.release(); await pool.end() }, then runMigrations settles:
   the boot script goes on to buildApp when it resolved and dies of the
   rejected top-level await otherwise; the migrate entry point ends, with
   process.exit(1) in its catch when it rejected *)
Finally(r) ==
  LET rec == runner[r] IN
  /\ rec.pc = "finally"
  /\ runner' = [runner EXCEPT ![r].client = "released",
                              ![r].pc = IF rec.error = "" /\ rec.entry = "server"
                                          THEN "build_app" ELSE "exited"]
  /\ UNCHANGED << authVars, migrationsDir, schema_migrations, batches, runs, probe, cls >>

(* const app = await buildApp() *)
BuildApp(r) ==
  /\ runner[r].pc = "build_app"
  /\ runner' = [runner EXCEPT ![r].pc = "listen"]
  /\ UNCHANGED << authVars, migrationsDir, schema_migrations, batches, runs, probe, cls >>

(* await app.listen({ host, port }) *)
Listen(r) ==
  /\ runner[r].pc = "listen"
  /\ runner' = [runner EXCEPT ![r].pc = "serving", ![r].listening = TRUE]
  /\ UNCHANGED << authVars, migrationsDir, schema_migrations, batches, runs, probe, cls >>

(* Errors a statement of the runner can raise: malformed DDL, lost connection *)
MigrationErrors == { "42601", "ECONNRESET" }

(* pool.connect() rejects: the call is outside the try block, so
   runMigrations rejects at once *)
ConnectFails(r) ==
  /\ runner[r].pc = "connect"
  /\ \E code \in MigrationErrors :
       runner' = [runner EXCEPT ![r].pc = "exited", ![r].error = code]
  /\ UNCHANGED << authVars, migrationsDir, schema_migrations, batches, runs, probe, cls >>

(* An awaited statement inside the try block rejects; a failing batch has
   been started and may be applied in part *)
QueryFails(r) ==
  LET rec == runner[r] IN
  /\ rec.pc \in InTry
  /\ \E code \in MigrationErrors :
       runner' = [runner EXCEPT ![r].pc = "finally", ![r].error = code]
  /\ batches' = IF rec.pc = "exec"
                  THEN [batches EXCEPT ![rec.files[rec.i]].started = @ + 1]
                  ELSE batches
  /\ UNCHANGED << authVars, migrationsDir, schema_migrations, runs, probe, cls >>

(* The process is killed; no finally block runs.  A kill while the batch
   is awaited may come after the batch was started *)
Crash(r) ==
  LET rec == runner[r] IN
  /\ rec.pc \notin Ended
  /\ runner' = [runner EXCEPT ![r].pc = "killed"]
  /\ \E sent \in BOOLEAN :
       batches' = IF rec.pc = "exec" /\ sent
                    THEN [batches EXCEPT ![rec.files[rec.i]].started = @ + 1]
                    ELSE batches
  /\ UNCHANGED << authVars, migrationsDir, schema_migrations, runs, probe, cls >>

(* The steps of runMigrations when every statement succeeds *)
RunnerSteps(r) ==
  \/ Connect(r)
  \/ EnsureLedger(r)
  \/ ReadDir(r)
  \/ SelectApplied(r)
  \/ ExecBatch(r)
  \/ InsertLedger(r)
  \/ Finally(r)

(* Every directory the runner may be pointed at *)
InitMigrate == InitAuth /\ InitInfraIn(SUBSET FilePool)

(* SpecMigrate: processes that run the migrations, one after the other,
   no statement failing *)
NextMigrate ==
  \/ StartProcess(1, {"server", "migrate"}, {TRUE})
  \/ RunnerSteps(1)
  \/ BuildApp(1)
  \/ Listen(1)

SpecMigrate == InitMigrate /\ [][NextMigrate]_vars

(* SpecMigrateFault: processes one after the other, with and without
   AUTO_MIGRATE_ON_BOOT, whose statements can fail and which can be killed *)
NextMigrateFault ==
  \/ StartProcess(1, {"server", "migrate"}, BOOLEAN)
  \/ RunnerSteps(1)
  \/ BuildApp(1)
  \/ Listen(1)
  \/ ConnectFails(1)
  \/ QueryFails(1)
  \/ Crash(1)

SpecMigrateFault == InitMigrate /\ [][NextMigrateFault]_vars

(* SpecRunners: migrate processes running at the same time against one
   database, no statement failing but for the ledger's primary key *)
NextRunners ==
  \E r \in Runners :
    \/ StartProcess(r, {"migrate"}, {TRUE})
    \/ RunnerSteps(r)

SpecRunners == InitMigrate /\ [][NextRunners]_vars

----------------------------------------------------------------------------
(* probeDatabase (routes.ts).  The completion of the query and the firing
   of the timer are callbacks of the event loop; the promise reactions they
   trigger (Promise.race settles, the await resumes, the finally block
   runs) are microtasks and complete before the next callback starts. *)

TimeoutInputs == { 100, 2000 }

QueryErrors == { "ECONNREFUSED", "57P01" }

(* probeDatabase(db, timeoutMs) up to its await: the timer is set and the
   query is sent *)
ProbeCall(q) ==
  /\ probe[q].pc = "none"
  /\ \E timeoutMs \in TimeoutInputs :
       probe' = [probe EXCEPT ![q] =
                   [NoProbe EXCEPT !.pc = "racing", !.query = "pending",
                                   !.timer = "pending", !.timeoutMs = timeoutMs]]
  /\ UNCHANGED << authVars, migrationsDir, schema_migrations, batches, runner, runs, cls >>

(* finally { if (timer) clearTimeout(timer) }: a pending timer is cancelled,
   a fired one is left as it is *)
clearTimeout(timer) == IF timer = "pending" THEN "cleared" ELSE timer

(* Mutant for C16: the finally block does not clear the timer *)
QueryFulfils_KeepsTimer(q) ==
  /\ probe[q].query = "pending"
  /\ probe' = [probe EXCEPT ![q] =
                 IF probe[q].pc = "racing"
                   THEN [@ EXCEPT !.query = "fulfilled", !.pc = "returned",
                                  !.outcome = "resolved", !.first = "query"]
                   ELSE [@ EXCEPT !.query = "fulfilled"]]
  /\ UNCHANGED << authVars, migrationsDir, schema_migrations, batches, runner, runs, cls >>

(* db.query('SELECT 1') fulfils; when the race is still open it settles
   fulfilled and probeDatabase resolves *)
QueryFulfils(q) ==
  /\ probe[q].query = "pending"
  /\ probe' = [probe EXCEPT ![q] =
                 IF probe[q].pc = "racing"
                   THEN [@ EXCEPT !.query = "fulfilled", !.pc = "returned",
                                  !.timer = clearTimeout(probe[q].timer),
                                  !.outcome = "resolved", !.first = "query"]
                   ELSE [@ EXCEPT !.query = "fulfilled"]]
  /\ UNCHANGED << authVars, migrationsDir, schema_migrations, batches, runner, runs, cls >>

(* db.query('SELECT 1') rejects; when the race is still open it settles
   rejected and probeDatabase rejects with the query's error *)
QueryRejects(q) ==
  /\ probe[q].query = "pending"
  /\ \E code \in QueryErrors :
       probe' = [probe EXCEPT ![q] =
                   IF probe[q].pc = "racing"
                     THEN [@ EXCEPT !.query = "rejected", !.queryError = code,
                                    !.pc = "returned",
                                    !.timer = clearTimeout(probe[q].timer),
                                    !.outcome = "rejected", !.code = code,
                                    !.first = "query"]
                     ELSE [@ EXCEPT !.query = "rejected", !.queryError = code]]
  /\ UNCHANGED << authVars, migrationsDir, schema_migrations, batches, runner, runs, cls >>

(* The setTimeout callback runs: error.code = 'ETIMEDOUT'; reject(error);
   the race settles rejected and probeDatabase rejects with that error *)
TimerFires(q) ==
  /\ probe[q].timer = "pending"
  /\ probe' = [probe EXCEPT ![q] =
                 [@ EXCEPT !.timer = clearTimeout("fired"), !.pc = "returned",
                           !.outcome = "rejected", !.code = "ETIMEDOUT",
                           !.first = "timer"]]
  /\ UNCHANGED << authVars, migrationsDir, schema_migrations, batches, runner, runs, cls >>

(* SpecProbe: probes in flight at the same time, each with its own query
   and timer *)
NextProbe ==
  \E q \in Probes :
    \/ ProbeCall(q)
    \/ QueryFulfils(q)
    \/ QueryRejects(q)
    \/ TimerFires(q)

SpecProbe == Init /\ [][NextProbe]_vars

----------------------------------------------------------------------------
(* Failure classifier: a call and its loop, step by step *)

(* The shapes of the error objects handed to the classifier *)
ErrorShapes ==
  { [codeType |-> "string", code |-> "ECONNREFUSED", message |-> << >>],
    [codeType |-> "string", code |-> "23505", message |-> << >>],
    [codeType |-> "number", code |-> "53300", message |-> << >>],
    [codeType |-> "undefined", code |-> "",
     message |-> << "R", "e", "a", "d", " ", "T", "i", "m", "e", "o", "u", "t" >>],
    [codeType |-> "undefined", code |-> "",
     message |-> << "s", "y", "n", "t", "a", "x", " ", "e", "r", "r", "o", "r" >>] }

ErrorIds == 1 .. MaxErr

Heaps ==
  [ ErrorIds -> { ErrorObject(sh.codeType, sh.code, sh.message, cause) :
                    sh \in ErrorShapes, cause \in ErrorIds \cup {0} } ]

(* isServiceUnavailableError is called: let current = error; const seen = new Set() *)
ClassifyCall ==
  /\ cls.pc = "none"
  /\ \E heap \in Heaps, error \in ErrorIds \cup {0} :
       cls' = [NoCall EXCEPT !.pc = "loop", !.heap = heap, !.error = error,
                             !.current = error]
  /\ UNCHANGED << authVars, migrationsDir, schema_migrations, batches, runner, runs, probe >>

(* Mutant for C15: the cause is not followed *)
ClassifyIterate_NoCause ==
  /\ cls.pc = "loop"
  /\ cls' = IF cls.current = 0 \/ cls.current \in cls.seen
              THEN [cls EXCEPT !.pc = "returned", !.result = FALSE]
              ELSE [cls EXCEPT !.pc = "returned",
                               !.seen = @ \cup {cls.current},
                               !.result = \/ CodeMatches(cls.heap[cls.current])
                                          \/ MessageMatches(cls.heap[cls.current])]
  /\ UNCHANGED << authVars, migrationsDir, schema_migrations, batches, runner, runs, probe >>

(* The loop condition and one iteration of the while loop, or return false *)
ClassifyIterate ==
  /\ cls.pc = "loop"
  /\ cls' = IF cls.current = 0 \/ cls.current \in cls.seen
              THEN [cls EXCEPT !.pc = "returned", !.result = FALSE]
              ELSE LET candidate == cls.heap[cls.current]
                       seen      == cls.seen \cup {cls.current}
                   IN  IF CodeMatches(candidate) \/ MessageMatches(candidate)
                         THEN [cls EXCEPT !.pc = "returned", !.seen = seen,
                                          !.result = TRUE]
                         ELSE [cls EXCEPT !.seen = seen, !.current = candidate.cause]
  /\ UNCHANGED << authVars, migrationsDir, schema_migrations, batches, runner, runs, probe >>

(* SpecClassifier: one call on any error of any heap; the loop is
   synchronous code and keeps running *)
NextClassifier ==
  \/ ClassifyCall
  \/ ClassifyIterate

SpecClassifier == Init /\ [][NextClassifier]_vars /\ WF_vars(ClassifyIterate)

----------------------------------------------------------------------------
(* Vocabulary of the properties *)

(* The rows of token sid, and whether one of them is live and owned *)
RowsOf(sid) == {s \in sessions : s.token_hash = sha256(sid)}

Resolves(sid, userId) ==
  \E s \in RowsOf(sid) :
    /\ s.expires_at > now
    /\ s.user_id = userId
    /\ \E u \in users : u.id = userId

Live(sid) == \E u \in users : Resolves(sid, u.id)

(* Request p executes the statement it awaits at position pc in this step *)
Executes(p, pc) == proc[p].pc = pc /\ proc'[p] # proc[p]

(* ... and the handler returns or raises in this step *)
Returns(p, pc) == Executes(p, pc) /\ proc'[p] = Idle

(* A request is answered in this step without awaiting any store call *)
ReturnsAtOnce(kinds) == proc' = proc /\ last' # last /\ last'.kind \in kinds

(* request.auth of the request in slot p after this step *)
AuthAfter(p) == IF proc'[p] = Idle THEN last'.auth ELSE proc'[p].auth

----------------------------------------------------------------------------
(* C1: after two successful logins of a user that run one after the other,
   attach with the first login's token leaves the request anonymous and
   attach with the second login's token binds a principal for that user.
   A token is superseded once a login of its user that began after its
   delivery has succeeded; a delivered login token is current while it is
   neither superseded nor logged out nor expired. *)
C1_SupersededGone ==
  \A sid \in superseded : RowsOf(sid) = {} /\ ~Live(sid)

C1_CurrentResolves ==
  NoneInFlight =>
    \A j \in jar :
      (j.via = "login" /\ j.sid \notin superseded /\ j.sid \notin loggedOut
         /\ now < j.expires)
        => Resolves(j.sid, j.userId)

C1_AttachStep ==
  \A p \in Procs :
    /\ (Executes(p, "attach_find") /\ proc[p].sid \in superseded)
         => (proc'[p] = Idle /\ last'.cookie = proc[p].sid /\ last'.auth = Null)
    /\ \A j \in jar :
         (Executes(p, "attach_find") /\ proc[p].sid = j.sid /\ j.via = "login"
            /\ j.sid \notin superseded /\ j.sid \notin loggedOut /\ now < j.expires)
           => proc'[p].pc = "attach_touch"
    /\ \A j \in jar :
         (Executes(p, "attach_touch") /\ proc[p].sid = j.sid)
           => (AuthAfter(p) # Null /\ AuthAfter(p).userId = j.userId
                 /\ AuthAfter(p).sid = j.sid)

C1_SequentialSingleSession ==
  /\ []C1_SupersededGone
  /\ []C1_CurrentResolves
  /\ [][C1_AttachStep]_vars

(* The first login's token was sent to GET /me and the request stayed
   anonymous, while the second login's token is live *)
C1_Witness ==
  /\ last.kind = "me"
  /\ last.auth = Null
  /\ \E j1, j2 \in jar :
       /\ j1.via = "login" /\ j2.via = "login"
       /\ j1.userId = j2.userId
       /\ j1.sid = last.cookie
       /\ j1.sid \in superseded
       /\ Resolves(j2.sid, j2.userId)

----------------------------------------------------------------------------
(* C2: once two or more successful logins of the same user have all
   completed, however their statements interleaved, the sessions table
   holds exactly one session of that user. *)
SessionsOfUser(userId) == {s \in sessions : s.user_id = userId}

LoginsDelivered(userId) == {j \in jar : j.userId = userId /\ j.via = "login"}

C2_OneSessionAfterLogins ==
  NoneInFlight =>
    \A u \in users :
      Cardinality(LoginsDelivered(u.id)) >= 2
        => Cardinality(SessionsOfUser(u.id)) = 1

----------------------------------------------------------------------------
(* C3: registering an address and then a casing variant of it, one call
   after the other, gives one 201 with profileId null and one 409; the users
   table then holds exactly one row for the lower-cased address, and the
   conflicting call creates no user, no session and sets no cookie. *)
SameAddress(e1, e2) == Lower(e1) = Lower(e2)

UsersOf(email) == {u \in users : SameAddress(u.email, email)}

C3_OneRowPerAddress ==
  \A u1, u2 \in users : SameAddress(u1.email, u2.email) => u1 = u2

C3_RegisterStep ==
  \A p \in Procs :
    /\ (Executes(p, "reg_find_user") /\ UsersOf(proc[p].email) # {})
         => /\ proc'[p] = Idle
            /\ last'.reply.status = 409
            /\ last'.reply.cookie.op = "none"
            /\ users' = users /\ sessions' = sessions /\ jar' = jar
    /\ (Executes(p, "reg_find_user") /\ UsersOf(proc[p].email) = {})
         => proc'[p].pc = "reg_create_user"
    /\ Executes(p, "reg_create_user")
         => /\ proc'[p].pc = "reg_delete_sessions"
            /\ Cardinality(users') = Cardinality(users) + 1
            /\ \E u \in users' : u.email = proc[p].email /\ u.id = proc[p].userId
    /\ Executes(p, "reg_delete_sessions") => proc'[p].pc = "reg_create_session"
    /\ Executes(p, "reg_create_session")
         => /\ proc'[p] = Idle
            /\ last'.reply.status = 201
            /\ last'.reply.body.profileId = Null
            /\ last'.reply.body.email = proc[p].email
            /\ Cardinality(UsersOf(proc[p].email)) = 1
            /\ \A u \in UsersOf(proc[p].email) : u.id = last'.reply.body.userId

C3_RegistrationIdempotent ==
  /\ []C3_OneRowPerAddress
  /\ [][C3_RegisterStep]_vars

(* The second call used the other casing of the stored address and got 409 *)
C3_Witness ==
  /\ last.kind = "register"
  /\ last.reply.status = 409
  /\ Cardinality(users) = 1
  /\ \E u \in users : u.email # last.email /\ SameAddress(u.email, last.email)

----------------------------------------------------------------------------
(* C4: when two registrations of one address (in any casings) both pass the
   pre-check before either inserts, exactly one user row is stored; the
   loser's createUser raises the unique violation, which is answered 409,
   with no session row and no cookie for the loser; the winner gets 201. *)
C4_RaceStep ==
  \A p \in Procs :
    /\ (Executes(p, "reg_create_user") /\ UsersOf(proc[p].email) # {})
         => /\ proc'[p] = Idle
            /\ last'.err = "23505"
            /\ last'.reply.status = 409
            /\ last'.reply.body = [error |-> "Email already registered"]
            /\ last'.reply.cookie.op = "none"
            /\ users' = users /\ sessions' = sessions /\ jar' = jar
    /\ (Executes(p, "reg_create_user") /\ UsersOf(proc[p].email) = {})
         => /\ proc'[p].pc = "reg_delete_sessions"
            /\ users' = users \cup {[id |-> proc[p].userId, email |-> proc[p].email,
                                     password_hash |-> hashPassword(proc[p].password)]}
    /\ Executes(p, "reg_create_session")
         => /\ last'.reply.status = 201
            /\ last'.reply.cookie.op = "set"
            /\ UsersOf(proc[p].email) = {u \in users : u.id = proc[p].userId}

C4_NoOrphanSessions ==
  \A s \in sessions : \E u \in users : u.id = s.user_id

C4_RegistrationRace ==
  /\ []C3_OneRowPerAddress
  /\ []C4_NoOrphanSessions
  /\ [][C4_RaceStep]_vars

(* The loser passed the pre-check, hit the unique violation and got 409;
   one row is stored and no session belongs to the loser's user id *)
C4_Witness ==
  /\ last.kind = "register"
  /\ last.err = "23505"
  /\ last.reply.status = 409
  /\ Cardinality(users) = 1

----------------------------------------------------------------------------
(* C5: after a login answered 200 with cookie token t for user u, while the
   session row of t has not been removed and has not expired, attach with t
   binds a principal whose userId is u's id and GET /me answers 200 with
   the userId the login returned. *)
C5_LoginStep ==
  \A p \in Procs :
    Executes(p, "login_reread")
      => /\ proc'[p] = Idle
         /\ last'.reply.status = 200
         /\ last'.reply.cookie.op = "set"
         /\ last'.reply.cookie.value = proc[p].sid
         /\ proc[p].user \in users
         /\ last'.reply.body.userId = proc[p].user.id
         /\ last'.reply.body.email = proc[p].user.email
         /\ \E s \in sessions' : /\ s.token_hash = sha256(proc[p].sid)
                                 /\ s.user_id = proc[p].user.id
                                 /\ s.expires_at = last'.reply.cookie.options.expires
         /\ [sid |-> proc[p].sid, userId |-> last'.reply.body.userId, via |-> "login",
             expires |-> last'.reply.cookie.options.expires] \in jar'

C5_MeStep ==
  \A p \in Procs : \A j \in jar :
    (proc[p].kind = "me" /\ proc[p].sid = j.sid /\ j.via = "login")
      => /\ (Executes(p, "attach_find") /\ RowsOf(j.sid) # {} /\ now < j.expires)
              => proc'[p].pc = "attach_touch"
         /\ Executes(p, "attach_touch")
              => /\ proc'[p].pc = "me_find_user"
                 /\ proc'[p].auth # Null
                 /\ proc'[p].auth.userId = j.userId
         /\ Executes(p, "me_find_user")
              => /\ proc'[p] = Idle
                 /\ last'.auth.userId = j.userId
                 /\ last'.reply.status = 200
                 /\ last'.reply.body.userId = j.userId

C5_LoginRoundTrip == [][C5_LoginStep /\ C5_MeStep]_vars

(* GET /me with a login's cookie answered 200 with that login's userId *)
C5_Witness ==
  /\ last.kind = "me"
  /\ last.reply.status = 200
  /\ \E j \in jar :
       /\ j.via = "login"
       /\ j.sid = last.cookie
       /\ last.reply.body.userId = j.userId
       /\ last.auth.userId = j.userId

----------------------------------------------------------------------------
(* C6: logout answers 204 without body and clears the cookie whether no
   token is present, the token matches no session or it matches one; once
   a logout with token t has completed no session with fingerprint(t)
   exists, attach with t is anonymous, and a further logout with t leaves
   the store unchanged and gives the same reply. *)
LogoutReply(reply) ==
  /\ reply.status = 204
  /\ reply.body = Null
  /\ reply.cookie.op = "clear"
  /\ reply.cookie.name = "sid"
  /\ reply.cookie.options.path = "/"

C6_LoggedOutGone ==
  \A sid \in loggedOut : RowsOf(sid) = {} /\ ~Live(sid)

C6_LogoutStep ==
  \A p \in Procs :
    /\ ReturnsAtOnce({"logout"})
         => /\ last'.cookie = NoSid
            /\ LogoutReply(last'.reply)
            /\ last'.err = ""
            /\ sessions' = sessions /\ users' = users
    /\ Executes(p, "logout_delete")
         => /\ proc'[p] = Idle
            /\ LogoutReply(last'.reply)
            /\ last'.err = ""
            /\ sessions' = sessions \ RowsOf(proc[p].sid)
            /\ users' = users
            /\ (RowsOf(proc[p].sid) = {} => sessions' = sessions)
    /\ (Executes(p, "attach_find") /\ proc[p].sid \in loggedOut)
         => (proc'[p] = Idle /\ last'.auth = Null)

C6_LogoutIdempotent ==
  /\ []C6_LoggedOutGone
  /\ [][C6_LogoutStep]_vars

(* A logout with a delivered token completed: 204, cookie cleared, no row *)
C6_Witness ==
  /\ last.kind = "logout"
  /\ last.cookie \in loggedOut
  /\ LogoutReply(last.reply)
  /\ RowsOf(last.cookie) = {}
  /\ sessions = {}
  /\ users # {}

----------------------------------------------------------------------------
(* C7: attach binds a principal exactly when the request carries a token t
   and a session row with fingerprint(t) and expiry > now, joined to its
   user, exists; for a missing token, an unknown token or an expired
   session it sets request.auth = null without raising, and it never
   deletes the expired row. *)
LiveRows(sid) ==
  {s \in sessions : /\ s.token_hash = sha256(sid)
                    /\ s.expires_at > now
                    /\ \E u \in users : u.id = s.user_id}

SameButLastSeen(s1, s2) ==
  [s1 EXCEPT !.last_seen_at = 0] = [s2 EXCEPT !.last_seen_at = 0]

C7_AttachStep ==
  \A p \in Procs :
    /\ ReturnsAtOnce({"me", "guard"})
         => /\ last'.cookie = NoSid
            /\ last'.auth = Null
            /\ last'.err = ""
            /\ sessions' = sessions
    /\ (Executes(p, "attach_find") /\ LiveRows(proc[p].sid) = {})
         => /\ proc'[p] = Idle
            /\ last'.auth = Null
            /\ last'.err = ""
            /\ sessions' = sessions
    /\ (Executes(p, "attach_find") /\ LiveRows(proc[p].sid) # {})
         => /\ proc'[p].pc = "attach_touch"
            /\ proc'[p].auth = Null
            /\ \E s \in LiveRows(proc[p].sid) :
                 /\ proc'[p].session.session_id = s.id
                 /\ proc'[p].session.user_id = s.user_id
                 /\ proc'[p].session.expires_at = s.expires_at
            /\ sessions' = sessions
    /\ Executes(p, "attach_touch")
         => /\ AuthAfter(p) # Null
            /\ AuthAfter(p).sid = proc[p].sid
            /\ AuthAfter(p).sessionId = proc[p].session.session_id
            /\ AuthAfter(p).userId = proc[p].session.user_id
            /\ AuthAfter(p).expiresAt = proc[p].session.expires_at
            /\ \A s \in sessions : \E s2 \in sessions' : SameButLastSeen(s, s2)
            /\ Cardinality(sessions') = Cardinality(sessions)

(* request.auth is a principal only after the touch, never before *)
C7_AuthOnlyAfterFind ==
  /\ \A p \in Procs :
       proc[p].auth # Null => (proc[p].pc = "me_find_user" /\ proc[p].session # Null)
  /\ last.auth # Null => last.kind \in {"me", "guard"}

C7_AttachIffLive ==
  /\ []C7_AuthOnlyAfterFind
  /\ [][C7_AttachStep]_vars

(* attach met an expired session: the request is anonymous, nothing was
   raised, and the expired row is still in the table *)
C7_Witness ==
  /\ last.kind \in {"me", "guard"}
  /\ last.cookie # NoSid
  /\ last.auth = Null
  /\ last.err = ""
  /\ \E s \in RowsOf(last.cookie) : s.expires_at <= now

----------------------------------------------------------------------------
(* C8: a login with an unknown address and a login with a known address and
   a wrong password are both answered 401 {error: 'Invalid credentials'}
   without cookie, and leave users and sessions unchanged: a live session
   of the targeted user still resolves. *)
WrongPassword(email, password) ==
  \E u \in UsersOf(email) : u.password_hash # hashPassword(password)

C8_FailedLoginStep ==
  \A p \in Procs :
    (Executes(p, "login_find_user")
       /\ (UsersOf(proc[p].email) = {} \/ WrongPassword(proc[p].email, proc[p].password)))
      => /\ proc'[p] = Idle
         /\ last'.reply = [status |-> 401,
                           body |-> [error |-> "Invalid credentials"],
                           cookie |-> [op |-> "none"]]
         /\ users' = users
         /\ sessions' = sessions
         /\ jar' = jar
         /\ \A j \in jar : Resolves(j.sid, j.userId) => Resolves(j.sid, j.userId)'

C8_FailedLoginChangesNothing == [][C8_FailedLoginStep]_vars

(* A login with the wrong password of a registered user was answered 401
   and that user's live session still resolves *)
C8_Witness ==
  /\ last.kind = "login"
  /\ last.reply.status = 401
  /\ UsersOf(last.email) # {}
  /\ \E j \in jar : \E u \in UsersOf(last.email) :
       j.userId = u.id /\ Resolves(j.sid, u.id)

----------------------------------------------------------------------------
(* C9: when attach has found a live session and the touchSession call
   fails, attach still completes without raising and the principal of that
   session is bound to the request. *)
C9_TouchBestEffort ==
  last.fault = "touchSession" => (last.err = "" /\ last.auth # Null)

----------------------------------------------------------------------------
(* C10: GET /me answers 200 only if a principal is attached and the user
   row of the principal's userId exists when it is re-read; it answers 401
   when the request is anonymous, and also when the user row was removed
   after attach bound the principal although the session row is still
   live; requireAuth answers 401 whenever attach leaves the request
   anonymous. *)
IsUnauthorized(reply) ==
  /\ reply.status = 401
  /\ reply.body = [error |-> "Unauthorized"]
  /\ reply.cookie.op = "none"

C10_MeStep ==
  \A p \in Procs :
    /\ (Executes(p, "me_find_user")
          /\ \E u \in users : u.id = proc[p].auth.userId)
         => /\ proc'[p] = Idle
            /\ last'.reply.status = 200
            /\ last'.reply.body.userId = proc[p].auth.userId
    /\ (Executes(p, "me_find_user")
          /\ ~ \E u \in users : u.id = proc[p].auth.userId)
         => /\ proc'[p] = Idle
            /\ IsUnauthorized(last'.reply)
    /\ (last' # last /\ last'.kind \in {"me", "guard"} /\ last'.auth = Null)
         => IsUnauthorized(last'.reply)
    /\ (proc'[p] # proc[p] /\ last' # last /\ last'.kind = "me"
          /\ last'.reply.status = 200)
         => (proc[p].pc = "me_find_user" /\ last'.auth # Null)

C10_OkOnlyWithPrincipal ==
  (last.kind \in {"me", "guard"} /\ last.reply.status = 200)
    => (last.kind = "me" /\ last.auth # Null)

C10_GetSelfAuthorisation ==
  /\ []C10_OkOnlyWithPrincipal
  /\ [][C10_MeStep]_vars

(* The user row went away after attach had bound the principal: GET /me
   answered 401 while the session row is still in the table, unexpired *)
C10_Witness ==
  /\ last.kind = "me"
  /\ last.auth # Null
  /\ IsUnauthorized(last.reply)
  /\ \E s \in RowsOf(last.cookie) : s.expires_at > now
  /\ ~ \E u \in users : u.id = last.auth.userId

----------------------------------------------------------------------------
(* Vocabulary of the migration properties *)

SqlFiles == {name \in migrationsDir : endsWith(name, SqlExt)}

(* runMigrations of the process in slot r has resolved *)
RunCompleted(r) == runner[r].client = "released" /\ runner[r].error = ""

(* C11: when the runner is run to completion n >= 1 times in sequence over
   a fixed set of files, each .sql file's batch has been executed exactly
   once and the ledger holds exactly the .sql files; a run after the first
   executes no batch and inserts no ledger row. *)
C11_AfterCompletedRun ==
  RunCompleted(1) =>
    /\ schema_migrations.rows = SqlFiles
    /\ \A f \in FilePool :
         /\ batches[f].started = batches[f].completed
         /\ batches[f].completed = IF f \in SqlFiles THEN 1 ELSE 0

C11_LaterRunStep ==
  runs >= 2 =>
    /\ batches' = batches
    /\ schema_migrations'.rows = schema_migrations.rows

C11_MigrationIdempotent ==
  /\ []C11_AfterCompletedRun
  /\ [][C11_LaterRunStep]_vars

(* A second run has completed over a directory of at least two .sql files *)
C11_Witness ==
  /\ runs = 2
  /\ RunCompleted(1)
  /\ Cardinality(SqlFiles) >= 2
  /\ runner[1].executed = << >>

----------------------------------------------------------------------------
(* No process is running in any slot, and at least one was started *)
AllEnded == runs >= 1 /\ \A r \in Runners : runner[r].pc \in Ended

NoDuplicates(seq) == \A i, j \in 1 .. Len(seq) : seq[i] = seq[j] => i = j

(* C12 as stated: with two runners running against the same ledger and
   files, every batch is executed at most once in total and neither runner
   fails on the ledger insert. *)
C12_AppliedAtMostOnce ==
  /\ \A f \in FilePool : batches[f].completed <= 1
  /\ \A r \in Runners : runner[r].error # "23505"

(* C12, amended: each runner executes a file's batch at most once, so a
   batch is executed at most once per runner process and at least once if
   the file has a ledger row; a runner fails only on a ledger insert whose
   row a concurrent runner has inserted after this runner's SELECT, with
   23505, after executing that batch itself; it then stops and releases its
   connection; when all runners have ended the ledger holds exactly the
   .sql files. *)
C12_PerRunner ==
  /\ \A f \in FilePool :
       /\ batches[f].completed <= runs
       /\ f \in schema_migrations.rows => batches[f].completed >= 1
  /\ \A r \in Runners :
       /\ NoDuplicates(runner[r].executed)
       /\ runner[r].error \in {"", "23505"}
       /\ runner[r].error = "23505" =>
            /\ runner[r].files[runner[r].i] \in schema_migrations.rows
            /\ runner[r].executed # << >>
            /\ runner[r].executed[Len(runner[r].executed)] = runner[r].files[runner[r].i]
            /\ runner[r].pc \in {"finally", "exited"}
       /\ runner[r].pc = "exited" => runner[r].client = "released"
  /\ AllEnded => schema_migrations.rows = SqlFiles

C12_InsertStep ==
  \A r \in Runners :
    (runner[r].pc = "insert" /\ runner'[r] # runner[r]) =>
      LET filename == runner[r].files[runner[r].i] IN
      IF filename \in schema_migrations.rows
        THEN /\ runner'[r].error = "23505"
             /\ runner'[r].pc = "finally"
             /\ schema_migrations' = schema_migrations
        ELSE /\ runner'[r].error = ""
             /\ schema_migrations'.rows = schema_migrations.rows \cup {filename}

C12_ConcurrentRunners ==
  /\ []C12_PerRunner
  /\ [][C12_InsertStep]_vars

(* Two runners have ended, one of them on the ledger insert, after a batch
   was executed twice *)
C12_Witness ==
  /\ AllEnded
  /\ runs = 2
  /\ \E r \in Runners : runner[r].error = "23505"
  /\ \E f \in FilePool : batches[f].completed = 2

----------------------------------------------------------------------------
(* Code unit of a character of the file names *)
CharCode(c) ==
  CASE c = "." -> 46
    [] c = "0" -> 48
    [] c = "1" -> 49
    [] c = "2" -> 50
    [] c = "d" -> 100
    [] c = "l" -> 108
    [] c = "m" -> 109
    [] c = "q" -> 113
    [] c = "s" -> 115

(* a is a smaller file name than b: the first differing character decides,
   a proper prefix is smaller *)
NameLess(a, b) ==
  \E k \in 1 .. Len(b) :
    /\ \A j \in 1 .. (k - 1) : j <= Len(a) /\ a[j] = b[j]
    /\ \/ k = Len(a) + 1
       \/ k <= Len(a) /\ CharCode(a[k]) < CharCode(b[k])

Ascending(seq) == \A i, j \in 1 .. Len(seq) : i < j => NameLess(seq[i], seq[j])

(* C17: within one run only .sql files are considered and they are
   processed in ascending filename order; whenever a file's batch is
   executed every smaller-named .sql file has a ledger row already; a
   ledger row of a file is inserted only after that file's batch has
   completed. *)
C17_OnlySqlInOrder ==
  /\ schema_migrations.rows \subseteq SqlFiles
  /\ \A f \in FilePool \ SqlFiles : batches[f].started = 0
  /\ \A r \in Runners :
       /\ Ascending(runner[r].files)
       /\ Ascending(runner[r].executed)
       /\ \A k \in 1 .. Len(runner[r].files) : runner[r].files[k] \in SqlFiles
       /\ runner[r].pc \in {"select", "exec", "insert", "finally", "exited"}
            => {runner[r].files[k] : k \in 1 .. Len(runner[r].files)} = SqlFiles

C17_BatchStep ==
  \A f \in FilePool :
    batches'[f] # batches[f] =>
      \A g \in SqlFiles : NameLess(g, f) => g \in schema_migrations.rows

C17_LedgerStep ==
  \A f \in FilePool :
    (f \in schema_migrations'.rows /\ f \notin schema_migrations.rows) =>
      /\ batches[f].completed >= 1
      /\ \E r \in Runners :
           /\ runner[r].pc = "insert"
           /\ runner'[r] # runner[r]
           /\ runner[r].executed # << >>
           /\ runner[r].executed[Len(runner[r].executed)] = f

C17_ApplicationOrder ==
  /\ []C17_OnlySqlInOrder
  /\ [][C17_BatchStep /\ C17_LedgerStep]_vars

(* A run over the whole pool has executed "002" and then "010", with the
   file of another extension left alone *)
C17_Witness ==
  /\ migrationsDir = FilePool
  /\ \E r \in Runners :
       /\ Len(runner[r].executed) = 3
       /\ runner[r].executed[3] = FileName(<< "0", "1", "0" >>, SqlExt)
       /\ runner[r].pc = "exited"

----------------------------------------------------------------------------
(* The process in slot r runs the boot script with AUTO_MIGRATE_ON_BOOT set *)
BootsWithMigrations(r) == runner[r].entry = "server" /\ runner[r].auto

(* C13: with auto-migration on boot, the service listens only after
   runMigrations has completed successfully; if runMigrations fails on a
   file, the listener is never started in that process, no later file is
   executed and the runner's connection is released. *)
C13_ListenAfterMigrations ==
  \A r \in Runners :
    BootsWithMigrations(r) =>
      /\ runner[r].pc \in {"build_app", "listen", "serving"} =>
           /\ RunCompleted(r)
           /\ schema_migrations.rows = SqlFiles
      /\ runner[r].listening => runner[r].pc = "serving"
      /\ runner[r].error # "" =>
           /\ ~runner[r].listening
           /\ runner[r].pc \in {"finally", "exited", "killed"}
           /\ (runner[r].pc = "exited" /\ runner[r].files # << >>)
                => runner[r].client = "released"

C13_FailedStep ==
  \A r \in Runners :
    (BootsWithMigrations(r) /\ runner[r].error # "" /\ runner'[r].entry = runner[r].entry
       /\ runner'[r].error # "") =>
      /\ batches' = batches
      /\ schema_migrations' = schema_migrations
      /\ runner'[r].pc \in {"finally", "exited", "killed"}
      /\ ~runner'[r].listening

C13_BootOrdering ==
  /\ []C13_ListenAfterMigrations
  /\ [][C13_FailedStep]_vars

(* A boot whose runner failed on a file that is not the last one has ended
   without listening, its connection released *)
C13_Witness ==
  /\ BootsWithMigrations(1)
  /\ runner[1].error # ""
  /\ runner[1].pc = "exited"
  /\ runner[1].i < Len(runner[1].files)
  /\ runner[1].client = "released"
  /\ batches[runner[1].files[runner[1].i]].started >= 1

----------------------------------------------------------------------------
(* C18: if a run crashes or fails while executing f's batch, or after the
   batch and before the ledger insert, f has no ledger row, and the next
   run re-attempts f before any later file; a ledger row of f implies that
   f's batch ran to completion at least once, while the batch may have been
   executed more than once. *)
C18_LedgerImpliesCompleted ==
  /\ \A f \in schema_migrations.rows : batches[f].completed >= 1
  /\ RunCompleted(1) => schema_migrations.rows = SqlFiles

(* The run of slot 1 ends in this step by a failure or a kill at pc *)
FailsAt(pc) ==
  /\ runner[1].pc = pc
  /\ \/ runner'[1].pc = "killed"
     \/ runner'[1].pc = "finally" /\ runner'[1].error # ""

C18_FailStep ==
  (FailsAt("exec") \/ FailsAt("insert")) =>
    runner[1].files[runner[1].i] \notin schema_migrations'.rows

C18_RetryStep ==
  /\ (runner[1].pc = "select" /\ runner'[1].pc \in {"select", "finally"}
        /\ runner'[1].error = "")
       => runner[1].files[runner[1].i] \in schema_migrations.rows
  /\ \A f \in FilePool :
       batches'[f] # batches[f] =>
         /\ f \notin schema_migrations.rows
         /\ \A g \in SqlFiles : NameLess(g, f) => g \in schema_migrations.rows

C18_CrashRecovery ==
  /\ []C18_LedgerImpliesCompleted
  /\ [][C18_FailStep /\ C18_RetryStep]_vars

(* A file whose batch completed in a run that was killed before the ledger
   insert has been executed again by the next run, and now has its row *)
C18_Witness ==
  \E f \in schema_migrations.rows :
    /\ batches[f].completed = 2
    /\ runs = 2
    /\ RunCompleted(1)

----------------------------------------------------------------------------
(* The error objects reachable from error through cause links *)
RECURSIVE ReachableFrom(_, _)
ReachableFrom(heap, found) ==
  LET more == (found \cup {heap[n].cause : n \in found}) \ {0}
  IN  IF more = found THEN found ELSE ReachableFrom(heap, more)

Reachable(heap, error) == IF error = 0 THEN {} ELSE ReachableFrom(heap, {error})

(* The object has a code of the transient set, or a message that contains
   a hint when lower-cased *)
IsTransient(e) ==
  \/ e.codeType = "string" /\ e.code \in SERVICE_UNAVAILABLE_DB_CODES
  \/ \E hint \in MESSAGE_HINTS : includes(toLowerCase(e.message), hint)

(* C15: on every error whose cause links form a finite chain or a cycle,
   isServiceUnavailableError terminates and returns true exactly when an
   error reachable through cause links has a transient code or a message
   with a hint; it returns false for null/undefined and for chains with no
   match. *)
C15_Result ==
  cls.pc = "returned" =>
    /\ cls.result = (\E n \in Reachable(cls.heap, cls.error) : IsTransient(cls.heap[n]))
    /\ cls.result = isServiceUnavailableError(cls.heap, cls.error)
    /\ cls.error = 0 => ~cls.result

(* Each iteration returns or adds an object to seen, which never exceeds
   the objects reachable from the argument *)
C15_IterateStep ==
  (cls.pc = "loop" /\ cls' # cls) =>
    \/ cls'.pc = "returned"
    \/ /\ cls'.seen \subseteq Reachable(cls.heap, cls.error)
       /\ Cardinality(cls'.seen) = Cardinality(cls.seen) + 1

C15_ClassifierOverCauses ==
  /\ []C15_Result
  /\ [][C15_IterateStep]_vars
  /\ (cls.pc = "loop" ~> cls.pc = "returned")

(* A call has returned false after walking once around a cycle of two
   objects *)
C15_Witness ==
  /\ cls.pc = "returned"
  /\ ~cls.result
  /\ cls.error # 0
  /\ cls.seen = {1, 2}
  /\ cls.current \in cls.seen

----------------------------------------------------------------------------
(* The store calls of each operation exposed to the routing layer *)
StoreCallsOf(kind) ==
  CASE kind = "register" -> {"findUserByEmail", "createUser", "deleteSessionsByUserId",
                             "createSession"}
    [] kind = "login"    -> {"findUserByEmail", "deleteSessionsByUserId", "createSession",
                             "findSessionByTokenHash"}
    [] kind = "logout"   -> {"deleteSessionByTokenHash"}
    [] kind = "me"       -> {"findSessionByTokenHash", "touchSession", "findUserById"}

(* C14: when a store call of register, login, logout or getSelf (with its
   attach pre-step) raises an error that isServiceUnavailableError
   classifies as service-unavailable, the response is the generic body
   {error: 'Service temporarily unavailable'} and never the raw error. *)
C14_FaultStep ==
  \A p \in Procs :
    (proc[p].pc # "idle" /\ proc'[p] = Idle /\ last'.err # ""
       /\ isServiceUnavailableError(DriverError(last'.err), 1)) =>
      /\ last'.fault \in StoreCallsOf(proc[p].kind)
      /\ last'.reply.body = toServiceUnavailableResponse
      /\ last'.reply.cookie = NoSetCookie
      /\ UNCHANGED << users, sessions >>

C14_UnavailableSurfaced ==
  last.err \in SERVICE_UNAVAILABLE_DB_CODES =>
    last.reply.body = [error |-> "Service temporarily unavailable"]

----------------------------------------------------------------------------
(* C16: probeDatabase settles by whichever of the query and the timer
   finishes first: it resolves if the query succeeds first, rejects with the
   query's error if the query fails first, and rejects with code ETIMEDOUT
   if the timer fires first, whatever the query does later; in each outcome
   no timer is pending once probeDatabase has returned. *)
C16_Settled ==
  \A q \in Probes :
    /\ probe[q].pc = "racing" =>
         /\ probe[q].query = "pending"
         /\ probe[q].timer = "pending"
         /\ probe[q].outcome = "none"
    /\ probe[q].pc = "returned" =>
         /\ probe[q].timer # "pending"
         /\ probe[q].first \in {"query", "timer"}
         /\ (probe[q].first = "query" /\ probe[q].query = "fulfilled") =>
              (probe[q].outcome = "resolved" /\ probe[q].timer = "cleared")
         /\ (probe[q].first = "query" /\ probe[q].query = "rejected") =>
              /\ probe[q].outcome = "rejected"
              /\ probe[q].code = probe[q].queryError
              /\ probe[q].code \in QueryErrors
              /\ probe[q].timer = "cleared"
         /\ probe[q].first = "query" => probe[q].query # "pending"
         /\ probe[q].first = "timer" =>
              /\ probe[q].outcome = "rejected"
              /\ probe[q].code = "ETIMEDOUT"
              /\ probe[q].timer = "fired"

C16_FirstStep ==
  \A q \in Probes :
    /\ (probe[q].pc = "racing" /\ probe'[q] # probe[q]) =>
         /\ probe'[q].pc = "returned"
         /\ probe'[q].first = IF probe'[q].query = "pending" THEN "timer" ELSE "query"
    /\ probe[q].pc = "returned" =>
         /\ probe'[q].pc = "returned"
         /\ probe'[q].outcome = probe[q].outcome
         /\ probe'[q].code = probe[q].code
         /\ probe'[q].timer = probe[q].timer
         /\ probe'[q].first = probe[q].first

C16_ProbeRace ==
  /\ []C16_Settled
  /\ [][C16_FirstStep]_vars

(* A probe has timed out and its query has fulfilled afterwards, while
   another probe was answered by its query *)
C16_Witness ==
  /\ \E q \in Probes :
       /\ probe[q].first = "timer"
       /\ probe[q].query = "fulfilled"
       /\ probe[q].outcome = "rejected"
       /\ probe[q].code = "ETIMEDOUT"
  /\ \E q \in Probes :
       /\ probe[q].first = "query"
       /\ probe[q].timer = "cleared"

----------------------------------------------------------------------------
(* C19: a session's expiry is set once, by createSession at register or
   login, and no operation changes it afterwards; touchSession changes only
   the last activity.  Hence once now >= expiry for the session of token t,
   attach with t is anonymous in every later state. *)
C19_ExpiryStep ==
  /\ \A s \in sessions, s2 \in sessions' :
       s2.id = s.id =>
         /\ s2.expires_at = s.expires_at
         /\ s2.token_hash = s.token_hash
         /\ s2.user_id = s.user_id
  /\ \A s2 \in sessions' :
       (\A s \in sessions : s.id # s2.id) =>
         \E p \in Procs :
           /\ Executes(p, "reg_create_session") \/ Executes(p, "login_create_session")
           /\ s2.expires_at = proc[p].expiresAt
           /\ s2.token_hash = sha256(proc[p].sid)
  /\ \A p \in Procs :
       (Executes(p, "reg_delete_sessions") \/ Executes(p, "login_delete_sessions")) =>
         proc'[p].expiresAt = now + SESSION_DAYS
  /\ \A p \in Procs :
       (Executes(p, "attach_find") /\ \E j \in jar : j.sid = proc[p].sid /\ now >= j.expires)
         => (proc'[p] = Idle /\ last'.auth = Null /\ last'.cookie = proc[p].sid)
  /\ now' >= now

C19_ExpiredNeverResolves ==
  /\ \A j \in jar :
       /\ now >= j.expires => ~Live(j.sid)
       /\ \A s \in RowsOf(j.sid) : s.expires_at = j.expires
  /\ \A s \in sessions :
       now >= s.expires_at => findSessionByTokenHash(s.token_hash) = Null

C19_ExpiryFixed ==
  /\ []C19_ExpiredNeverResolves
  /\ [][C19_ExpiryStep]_vars

(* A token that attached and was touched before its expiry was presented
   again after it: the request stayed anonymous and the row is unchanged
   but for its last activity *)
C19_Witness ==
  /\ last.kind = "me"
  /\ last.auth = Null
  /\ \E j \in jar :
       /\ j.sid = last.cookie
       /\ now >= j.expires
       /\ \E s \in RowsOf(j.sid) : s.last_seen_at # NeverSeen /\ s.expires_at = j.expires

----------------------------------------------------------------------------
(* The user whose sessions the register or login in slot p works on *)
OwnerOf(p) == IF proc[p].kind = "register" THEN proc[p].userId ELSE proc[p].user.id

(* C20: login or register for user u deletes and creates session rows of u
   only, and logout with token t deletes at most the row with the
   fingerprint of t; under any interleaving the session rows of every other
   user, and for logout every other session, are unchanged, so a logout
   with a superseded token of u never removes u's current session; every
   session row references an existing user. *)
C20_IsolationStep ==
  \A p \in Procs :
    /\ (\E pc \in {"reg_delete_sessions", "reg_create_session",
                  "login_delete_sessions", "login_create_session"} : Executes(p, pc))
         => /\ \A s \in sessions \ sessions' : s.user_id = OwnerOf(p)
            /\ \A s \in sessions' \ sessions : s.user_id = OwnerOf(p)
    /\ Executes(p, "logout_delete")
         => /\ sessions' \subseteq sessions
            /\ \A s \in sessions \ sessions' : s.token_hash = sha256(proc[p].sid)
    /\ (\E pc \in {"reg_find_user", "reg_create_user", "login_find_user", "login_reread"} :
          Executes(p, pc))
         => sessions' = sessions
    /\ ReturnsAtOnce({"logout"}) => sessions' = sessions

C20_RowsReferenceUsers ==
  \A s \in sessions : \E u \in users : u.id = s.user_id

C20_SessionIsolation ==
  /\ []C20_RowsReferenceUsers
  /\ [][C20_IsolationStep]_vars

(* A logout with a superseded token of one user has completed, and that
   user's current session and another user's session are both in place *)
C20_Witness ==
  /\ last.kind = "logout"
  /\ last.cookie \in superseded
  /\ \E j \in jar, k \in jar :
       /\ j.sid = last.cookie
       /\ k.userId = j.userId /\ k.sid # j.sid /\ Resolves(k.sid, k.userId)
  /\ \E j \in jar, k \in jar :
       /\ j.sid = last.cookie
       /\ k.userId # j.userId /\ Resolves(k.sid, k.userId)

====
